---- MODULE Spec2Model ----
(***************************************************************************)
(* Model of SwarmGameManager (rgym_exp/src/manager.py): the time-gated     *)
(* reward submission controller, its fallback flush and the blocking       *)
(* round poller; and of the merge of peer artifacts into the local trees   *)
(* by ReasoningGymDataManager (rgym_exp/src/data.py).                      *)
(*                                                                         *)
(* Rewards are floats in the program.  They are modelled in fixed point,   *)
(* one unit = 0.5, so that int(...) is a real truncation.  Wall-clock time *)
(* is counted in whole hours, the monotonic clock of agent_block in        *)
(* seconds.                                                                *)
(***************************************************************************)
EXTENDS Integers, Sequences, FiniteSets, TLC

VARIABLES
    round,                      \* self.state.round
    now,                        \* time.time(), in hours
    time_since_submit,          \* self.time_since_submit
    batched_signals,            \* self.batched_signals
    submitted_this_round,       \* self.submitted_this_round
    cached_zero_reward_rounds,  \* self.cached_zero_reward_rounds
    sim_zero_cache,             \* self.sim_zero_cache
    pending_rewards,            \* self.pending_rewards
    pc,                         \* position of the coordination thread
    check_backoff,              \* agent_block: check_backoff (seconds)
    block_elapsed,              \* agent_block: time.monotonic() - start_time
    polls,                      \* agent_block: iterations of the current call
    iter,                       \* rounds processed so far
    iter_limit,                 \* rounds the run processes
    owed,                       \* history: sum queued since the last full flush
    flush_log,                  \* history: the full flushes, oldest first
    zero_log,                   \* history: rounds recorded since the cache was cleared
    ev,                         \* history: what the last step did
    unpaid,                     \* history: sum queued that no accepted submit_reward covered
    health_threads,             \* the threads _call_health_check started
    timeout_s,                  \* self.train_timeout (seconds)
    trees,                      \* current_state.trees
    num_transplant_trees,       \* self.num_transplant_trees
    num_generations,            \* self.num_generations, 0 when None or 0
    merge_ev                    \* history: what the last merge did

managerVars ==
    <<round, now, time_since_submit, batched_signals, submitted_this_round,
      cached_zero_reward_rounds, sim_zero_cache, pending_rewards, pc,
      check_backoff, block_elapsed, polls, iter, iter_limit, owed,
      flush_log, zero_log, ev, unpaid, health_threads, timeout_s>>

dataVars == <<trees, num_transplant_trees, num_generations, merge_ev>>

vars == <<managerVars, dataVars>>

----------------------------------------------------------------------------
\* Bounds of the model

MaxTime == 7        \* wall-clock hours explored
MaxIter == 2        \* rounds processed
MaxQuietIter == 4   \* rounds processed while the clock stands still
MaxPolls == 0       \* coordinator polls per agent_block call before it must answer
MaxBlockPolls == 8  \* the same, in the runs that follow the poller
MaxBlockIter == 3   \* rounds processed in the runs that follow the poller
MaxHealthIter == 1  \* rounds processed in the runs that follow the health threads
MaxTrainTimeout == 30   \* train_timeout, in seconds, of the runs that reach it by sleeping
max_round == 4      \* constructor argument max_round

\* Program constants

submit_frequency == 3       \* hours
train_timeout == 2678400    \* 60 * 60 * 24 * 31 seconds
check_interval == 5
max_check_interval == 300

peer_id == "B"

----------------------------------------------------------------------------
\* Fixed point: one unit is 0.5

Fixed(n) == 2 * n

\* int(x): truncation toward zero
IntOf(x) == IF x >= 0 THEN x \div 2 ELSE -((-x) \div 2)

RECURSIVE SumSeq(_)
SumSeq(s) == IF s = <<>> THEN 0 ELSE Head(s) + SumSeq(Tail(s))

Max2(a, b) == IF a >= b THEN a ELSE b
Min2(a, b) == IF a <= b THEN a ELSE b

----------------------------------------------------------------------------
\* The reward ledger: rewards[stage] lists, in dict order, the agents of the
\* stage; each agent carries its batches, each batch its generation-reward
\* sequences.  An input is the ledger together with self.state.stage.

Gen(a, b) == <<a, b>>

\* self.state.stage = 0: nothing to read
LedgerEmpty == [stage |-> 0, rewards |-> <<>>]

\* {A: 5.0, B: 5.0, C: 3.0}, B's total spread over two batches
LedgerTie ==
    [stage |-> 1,
     rewards |-> << << [agent |-> "A", batches |-> << <<Gen(4, 6)>> >>],
                       [agent |-> "B", batches |-> << <<Gen(2, 4)>>, <<Gen(4, 0)>> >>],
                       [agent |-> "C", batches |-> << <<Gen(6, 0)>> >>] >> >>]

\* the local peer is absent from the ledger
LedgerZero ==
    [stage |-> 1,
     rewards |-> << << [agent |-> "A", batches |-> << <<Gen(2, 0)>> >>] >> >>]

\* two stages: C is seen first with 1.0 and loses 0.5 in the second stage,
\* where the local peer earns 0.5
LedgerHalf ==
    [stage |-> 2,
     rewards |-> << << [agent |-> "C", batches |-> << <<Gen(2, 0)>> >>] >>,
                    << [agent |-> "B", batches |-> << <<Gen(1, 0)>> >>],
                       [agent |-> "C", batches |-> << <<Gen(-1, 0)>> >>] >> >>]

\* negative totals: A: -2.0, B: -1.0
LedgerNegative ==
    [stage |-> 1,
     rewards |-> << << [agent |-> "A", batches |-> << <<Gen(-4, 0)>> >>],
                       [agent |-> "B", batches |-> << <<Gen(-2, 0)>> >>] >> >>]

\* self.state.stage runs past the stages the ledger holds: rewards[stage] raises
LedgerMissingStage ==
    [stage |-> 2,
     rewards |-> << << [agent |-> "B", batches |-> << <<Gen(2, 0)>> >>] >> >>]

Ledgers == {LedgerEmpty, LedgerTie, LedgerZero, LedgerHalf, LedgerNegative,
            LedgerMissingStage}

----------------------------------------------------------------------------
\* _get_total_rewards_by_agent

\* tot of one batch: the sum over its generation-reward sequences
BatchTotal(batch_rewards) ==
    SumSeq([i \in 1..Len(batch_rewards) |-> SumSeq(batch_rewards[i])])

HasAgent(rba, agent) == \E i \in 1..Len(rba) : rba[i].agent = agent

\* rewards_by_agent[agent_id] += tot on a defaultdict(int): a new key goes last
AddReward(rba, agent, tot) ==
    IF HasAgent(rba, agent)
    THEN [i \in 1..Len(rba) |->
            IF rba[i].agent = agent
            THEN [agent |-> agent, total |-> rba[i].total + tot]
            ELSE rba[i]]
    ELSE Append(rba, [agent |-> agent, total |-> tot])

RECURSIVE AddBatches(_, _, _)
AddBatches(rba, agent, batches) ==
    IF batches = <<>> THEN rba
    ELSE AddBatches(AddReward(rba, agent, BatchTotal(Head(batches))),
                    agent, Tail(batches))

RECURSIVE AddStage(_, _)
AddStage(rba, stage_rewards) ==
    IF stage_rewards = <<>> THEN rba
    ELSE AddStage(AddBatches(rba, Head(stage_rewards).agent,
                             Head(stage_rewards).batches),
                  Tail(stage_rewards))

RECURSIVE AddStages(_, _, _)
AddStages(rba, rewards, n) ==
    IF n = 0 THEN rba
    ELSE AddStage(AddStages(rba, rewards, n - 1), rewards[n])

\* the call raises when a stage below self.state.stage is missing
TotalsRaise(ledger) == ledger.stage > Len(ledger.rewards)

GetTotalRewardsByAgent(ledger) == AddStages(<<>>, ledger.rewards, ledger.stage)

\* rewards_by_agent.get(agent, 0)
GetReward(rba, agent) ==
    IF HasAgent(rba, agent)
    THEN rba[CHOOSE i \in 1..Len(rba) : rba[i].agent = agent].total
    ELSE 0

----------------------------------------------------------------------------
\* The aggregation step of _hook_after_rewards_updated

\* Mutant: the bonus for a positive round is left out
PerRoundRewardNoBonus(my_rewards_total, cache) ==
    IF my_rewards_total > 0
    THEN IntOf(Max2(my_rewards_total + Fixed(Len(cache)), 0))
    ELSE IntOf(Max2(Fixed(Len(cache)), 0))

\* per_round_reward = int(max(per_round_reward, 0))
PerRoundReward(my_rewards_total, cache) ==
    IF my_rewards_total > 0
    THEN IntOf(Max2(my_rewards_total + Fixed(1) + Fixed(Len(cache)), 0))
    ELSE IntOf(Max2(Fixed(Len(cache)), 0))

InCache(cache, r) == \E i \in 1..Len(cache) : cache[i] = r

\* Mutants: a full cache drops the round just recorded instead of the oldest
\* one; a positive round leaves the cache as it is
NextZeroCacheDropsNewest(my_rewards_total, cache, r) ==
    IF my_rewards_total > 0 THEN <<>>
    ELSE IF \E i \in 1..Len(cache) : cache[i] = r THEN cache
    ELSE IF Len(cache) + 1 > 3 THEN cache
    ELSE Append(cache, r)

NextZeroCacheNotCleared(my_rewards_total, cache, r) ==
    IF my_rewards_total > 0 THEN cache
    ELSE IF \E i \in 1..Len(cache) : cache[i] = r THEN cache
    ELSE IF Len(cache) + 1 > 3 THEN Tail(Append(cache, r))
    ELSE Append(cache, r)

\* self.sim_zero_cache after the aggregation step
NextZeroCache(my_rewards_total, cache, r) ==
    IF my_rewards_total > 0 THEN <<>>
    ELSE IF InCache(cache, r) THEN cache
    ELSE IF Len(cache) + 1 > 3 THEN Tail(Append(cache, r))
    ELSE Append(cache, r)

\* Mutant: the gate opens an hour early
GateClosedEarly(t, since) == t - since < submit_frequency - 1

\* the time gate of the primary path: return while elapsed < submit_frequency
GateClosed(t, since) == t - since < submit_frequency

\* the time gate of the fallback path: flush only when elapsed > submit_frequency
FallbackOpen(t, since) == t - since > submit_frequency

----------------------------------------------------------------------------
\* max(rewards_by_agent.items(), key=lambda x: x[1]): the first item that no
\* later item exceeds

\* Mutant: a later item with an equal total replaces the best one
RECURSIVE MaxFromLast(_, _)
MaxFromLast(best, rest) ==
    IF rest = <<>> THEN best
    ELSE IF Head(rest).total >= best.total
         THEN MaxFromLast(Head(rest), Tail(rest))
    ELSE MaxFromLast(best, Tail(rest))

RECURSIVE MaxFrom(_, _)
MaxFrom(best, rest) ==
    IF rest = <<>> THEN best
    ELSE IF Head(rest).total > best.total THEN MaxFrom(Head(rest), Tail(rest))
    ELSE MaxFrom(best, Tail(rest))

MaxItem(rba) == MaxFrom(Head(rba), Tail(rba))

----------------------------------------------------------------------------
\* Coordinator RPCs.  The coordinator is the environment: fails says how many
\* of the coming attempts of a call it makes fail.

Fails == 0..3

Rpc(name, rnd, amount, winners, ok) ==
    [rpc |-> name, round |-> rnd, amount |-> amount, winners |-> winners,
     ok |-> ok]

\* Mutant: the loop gives up after the second failed attempt
RECURSIVE RetryLoopTwice(_, _, _)
RetryLoopTwice(attempt, fails, call) ==
    IF attempt >= 3 THEN [log |-> <<>>, aborted |-> FALSE]
    ELSE IF attempt >= fails
         THEN [log |-> <<[call EXCEPT !.ok = TRUE]>>, aborted |-> FALSE]
    ELSE IF attempt = 1
         THEN [log |-> <<[call EXCEPT !.ok = FALSE]>>, aborted |-> TRUE]
    ELSE LET rest == RetryLoopTwice(attempt + 1, fails, call)
         IN  [log |-> <<[call EXCEPT !.ok = FALSE]>> \o rest.log,
              aborted |-> rest.aborted]

\* for attempt in range(3): try: call; break
\*                          except: if attempt == 2: return False
RECURSIVE RetryLoop(_, _, _)
RetryLoop(attempt, fails, call) ==
    IF attempt >= 3 THEN [log |-> <<>>, aborted |-> FALSE]
    ELSE IF attempt >= fails
         THEN [log |-> <<[call EXCEPT !.ok = TRUE]>>, aborted |-> FALSE]
    ELSE IF attempt = 2
         THEN [log |-> <<[call EXCEPT !.ok = FALSE]>>, aborted |-> TRUE]
    ELSE LET rest == RetryLoop(attempt + 1, fails, call)
         IN  [log |-> <<[call EXCEPT !.ok = FALSE]>> \o rest.log,
              aborted |-> rest.aborted]

\* _submit_current_rewards: the result, the RPCs issued and the fields it sets
SubmitCurrentRewards(my_rewards, rba, cached, sim, rnd, rfails, wfails) ==
    LET max_agent == MaxItem(rba).agent
        final_rewards == my_rewards + Len(cached)
        rew == RetryLoop(0, rfails,
                         Rpc("submit_reward", rnd, final_rewards, <<>>, FALSE))
        win == RetryLoop(0, wfails,
                         Rpc("submit_winners", rnd, 0, <<max_agent>>, FALSE))
    IN  IF rew.aborted
        THEN [ok |-> FALSE, rpcs |-> rew.log, cached |-> cached,
              submitted |-> FALSE, health |-> 0]
        ELSE IF win.aborted
        THEN [ok |-> FALSE, rpcs |-> rew.log \o win.log, cached |-> cached,
              submitted |-> FALSE, health |-> 0]
        ELSE [ok |-> TRUE, rpcs |-> rew.log \o win.log, cached |-> sim,
              submitted |-> TRUE, health |-> 1]

\* Mutants: a failed flush empties the queue too; a full flush keeps the
\* accumulator
QueueAlwaysEmptied(ok, pending) == <<>>
BatchedKept(ok, batched) == batched

\* what a flush leaves behind (the submission_success branches)
TimerAfterFlush(ok, t, since) == IF ok THEN t ELSE since
QueueAfterFlush(ok, pending) == IF ok THEN <<>> ELSE pending
BatchedAfterFlush(ok, batched) == IF ok THEN 0 ELSE batched

\* history: the coordinator accepted a submit_reward and a submit_winners
Accepted(rpcs, name) ==
    \E i \in 1..Len(rpcs) : rpcs[i].rpc = name /\ rpcs[i].ok
FullFlush(rpcs) == Accepted(rpcs, "submit_reward") /\ Accepted(rpcs, "submit_winners")

----------------------------------------------------------------------------
\* ReasoningGymDataManager (rgym_exp/src/data.py): prepare_states and
\* transplant_trees

\* Bounds of the merge runs
MaxTransplants == 2     \* largest num_transplant_trees configured
MaxStage == 1           \* largest current_state.stage a merge runs at

\* kwargs num_generations as the configuration sets it
expected_generations == 2

AgentNames == {peer_id, "P"}
BatchIds == {1, 2}
Pairs == AgentNames \X BatchIds

\* generate_md5_hash_id of a question text: a content-derived integer; two
\* texts may share it
QuestionId(question) ==
    CASE question = "q1" -> 1
      [] question = "q2" -> 2
      [] OTHER -> 1

\* --- what peers publish ---

Payload(question, actions, metadata) ==
    [is_payload |-> TRUE, actions_kind |-> "strs", actions |-> actions,
     question |-> question, metadata |-> metadata]

PayA(question) == Payload(question, <<"a1", "a2">>, "mA")
PayB(question) == Payload(question, <<"b1", "b2">>, "mB")
\* one action too few
PayShort(question) == Payload(question, <<"a1">>, "mS")
\* a list of the right length holding something that is not a string
PayMixed(question) ==
    [Payload(question, <<"a1", "a2">>, "mX") EXCEPT !.actions_kind = "mixed"]
\* actions is None
PayNoActions(question) ==
    [Payload(question, <<>>, "mN") EXCEPT !.actions_kind = "none"]
\* an object that is not a Payload
NotPayload(question) ==
    [Payload(question, <<"a1", "a2">>, "mO") EXCEPT !.is_payload = FALSE]

Batch(batch_id, payloads) ==
    [batch_id |-> batch_id, is_int |-> TRUE, is_list |-> TRUE,
     payloads |-> payloads]

Entry(agent, batches) ==
    [agent |-> agent, is_str |-> TRUE, is_dict |-> TRUE, batches |-> batches]

\* the values a peer may be listed with in swarm_states
EntryOne(agent) == Entry(agent, <<Batch(1, <<PayA("q1")>>)>>)
EntryTwoSamePair(agent) ==
    Entry(agent, <<Batch(1, <<PayA("q1"), PayB("q1")>>)>>)
EntryTwoBatches(agent) ==
    Entry(agent, <<Batch(1, <<PayShort("q1"), PayB("q3")>>),
                   Batch(2, <<PayA("q2")>>)>>)
EntryMismatch(agent) == Entry(agent, <<Batch(1, <<PayA("q2")>>)>>)
EntryLateMismatch(agent) ==
    Entry(agent, <<Batch(2, <<PayB("q2")>>), Batch(1, <<PayB("q2")>>)>>)
EntryIneligible(agent) ==
    Entry(agent,
          <<Batch(2, <<NotPayload("q2"), PayMixed("q2"), PayNoActions("q2")>>),
            [Batch(1, <<PayA("q1")>>) EXCEPT !.is_int = FALSE],
            [Batch(1, <<>>) EXCEPT !.is_list = FALSE]>>)
EntryNotDict(agent) == [Entry(agent, <<>>) EXCEPT !.is_dict = FALSE]
EntryKeyNotStr(agent) == [EntryOne(agent) EXCEPT !.is_str = FALSE]

\* swarm_states: a mapping in iteration order, at most one entry per key
Swarms ==
    {<<>>,
     <<EntryOne("P")>>, <<EntryTwoSamePair("P")>>, <<EntryTwoBatches("P")>>,
     <<EntryMismatch("P")>>, <<EntryLateMismatch("P")>>,
     <<EntryIneligible("P")>>, <<EntryNotDict("P")>>, <<EntryKeyNotStr("P")>>,
     <<EntryOne(peer_id), EntryTwoBatches("P")>>,
     <<EntryTwoBatches("P"), EntryOne(peer_id)>>,
     <<EntryOne(peer_id), EntryMismatch("P")>>,
     <<EntryMismatch(peer_id), EntryOne("P")>>,
     <<EntryTwoSamePair(peer_id), EntryOne("P")>>,
     <<EntryKeyNotStr(peer_id), EntryTwoSamePair("P")>>}

\* --- current_state.trees ---

Absent == [kind |-> "absent", root |-> "", stage |-> 0, actions |-> <<>>,
           metadata |-> ""]
NoneTree == [Absent EXCEPT !.kind = "none"]

\* Mutant: the metadata of the payload is not attached
GameTreeNoMetadata(question, stage, actions, metadata) ==
    [kind |-> "tree", root |-> question, stage |-> stage,
     actions |-> actions, metadata |-> ""]

\* game_tree_factory(received_states), append_node_actions(stage, node_idx=0,
\* actions) and the metadata of node 0 of that stage
GameTree(question, stage, actions, metadata) ==
    [kind |-> "tree", root |-> question, stage |-> stage,
     actions |-> actions, metadata |-> metadata]

NoTrees == [p \in Pairs |-> Absent]

\* agent in current_state.trees
AgentKnown(tr, agent) == \E b \in BatchIds : tr[<<agent, b>>].kind # "absent"

\* --- transplant_trees ---

\* Mutant: what the list of actions holds is not looked at
EligibleAnyActions(payload) ==
    /\ num_generations # 0
    /\ payload.is_payload
    /\ payload.actions_kind # "none"
    /\ Len(payload.actions) = num_generations

\* the condition under which a payload is taken
Eligible(payload) ==
    /\ num_generations # 0
    /\ payload.is_payload
    /\ payload.actions_kind = "strs"
    /\ Len(payload.actions) = num_generations

RECURSIVE Concat(_)
Concat(seqs) == IF seqs = <<>> THEN <<>> ELSE Head(seqs) \o Concat(Tail(seqs))

\* the payloads the three nested loops visit, in order
BatchCandidates(agent, batch) ==
    IF ~batch.is_int \/ ~batch.is_list THEN <<>>
    ELSE [i \in 1..Len(batch.payloads) |->
             [agent |-> agent, batch_id |-> batch.batch_id,
              payload |-> batch.payloads[i]]]

EntryCandidates(tr, entry) ==
    IF ~entry.is_str THEN <<>>
    ELSE IF AgentKnown(tr, entry.agent) THEN <<>>
    ELSE IF ~entry.is_dict THEN <<>>
    ELSE Concat([i \in 1..Len(entry.batches) |->
                    BatchCandidates(entry.agent, entry.batches[i])])

Candidates(tr, swarm) ==
    Concat([i \in 1..Len(swarm) |-> EntryCandidates(tr, swarm[i])])

SamePair(x, y) == x.agent = y.agent /\ x.batch_id = y.batch_id

\* transplants[(agent, batch_id)] = payload: a dict, so a pair that is
\* already taken keeps its place and gets the new payload
Put(transplants, c) ==
    IF \E i \in 1..Len(transplants) : SamePair(transplants[i], c)
    THEN [i \in 1..Len(transplants) |->
             IF SamePair(transplants[i], c) THEN c ELSE transplants[i]]
    ELSE Append(transplants, c)

\* Mutant: the scan goes one acceptance beyond the cap
CapReachedLate(n, num_transplants) == n > num_transplants

\* if len(transplants) >= num_transplants: return transplants
CapReached(n, num_transplants) == n >= num_transplants

RECURSIVE Scan(_, _, _, _)
Scan(cands, i, transplants, num_transplants) ==
    IF i > Len(cands)
    THEN [transplants |-> transplants, scanned |-> Len(cands)]
    ELSE IF Eligible(cands[i].payload)
    THEN LET t == Put(transplants, cands[i])
         IN  IF CapReached(Len(t), num_transplants)
             THEN [transplants |-> t, scanned |-> i]
             ELSE Scan(cands, i + 1, t, num_transplants)
    ELSE Scan(cands, i + 1, transplants, num_transplants)

TransplantTrees(tr, swarm, num_transplants) ==
    Scan(Candidates(tr, swarm), 1, <<>>, num_transplants)

\* --- prepare_states ---

\* Mutant: the entry of the agent is made anew for every pair
EnsureAgentAnew(tr, agent) ==
    [p \in Pairs |-> IF p[1] = agent THEN Absent ELSE tr[p]]

\* if agent not in trees: trees[agent] = {}
EnsureAgent(tr, agent) ==
    IF ~AgentKnown(tr, agent)
    THEN [p \in Pairs |-> IF p[1] = agent THEN Absent ELSE tr[p]]
    ELSE tr

\* if batch_id not in trees[agent]: trees[agent][batch_id] = None
EnsureBatch(tr, agent, batch_id) ==
    IF tr[<<agent, batch_id>>].kind = "absent"
    THEN [tr EXCEPT ![<<agent, batch_id>>] = NoneTree]
    ELSE tr

\* Mutant: the identifier is not compared
IdMatchesAlways(payload, batch_id) == TRUE

\* payload_batch_id == batch_id
IdMatches(payload, batch_id) == QuestionId(payload.question) = batch_id

\* the loop over the accepted pairs, from the i-th on: the trees it leaves,
\* the pairs it made a tree for, and the error that ended it
RECURSIVE Plant(_, _, _, _, _)
Plant(transplants, i, tr, stage, created) ==
    IF i > Len(transplants)
    THEN [trees |-> tr, created |-> created, error |-> "none"]
    ELSE LET c == transplants[i]
             pair == <<c.agent, c.batch_id>>
             t1 == EnsureBatch(EnsureAgent(tr, c.agent), c.agent, c.batch_id)
         IN  IF ~IdMatches(c.payload, c.batch_id)
             THEN [trees |-> t1, created |-> created,
                   error |-> "AssertionError"]
             ELSE IF t1[pair].kind = "none"
             THEN Plant(transplants, i + 1,
                        [t1 EXCEPT ![pair] =
                            GameTree(c.payload.question, stage,
                                     c.payload.actions, c.payload.metadata)],
                        stage, Append(created, pair))
             ELSE Plant(transplants, i + 1, t1, stage, created)

\* history record of the last step of the merge runs
NoMerge(op) ==
    [op |-> op, swarm |-> <<>>, stage |-> 0, accepted |-> <<>>, scanned |-> 0,
     created |-> <<>>, error |-> "none"]

\* prepare_states(current_state, swarm_states) at current_state.stage = stage
PrepareStates(swarm, stage) ==
    /\ UNCHANGED <<num_transplant_trees, num_generations>>
    /\ IF num_transplant_trees > 0
       THEN LET scan == TransplantTrees(trees, swarm, num_transplant_trees)
                res == Plant(scan.transplants, 1, trees, stage, <<>>)
            IN  /\ trees' = res.trees
                /\ merge_ev' = [op |-> "merge", swarm |-> swarm,
                                stage |-> stage,
                                accepted |-> scan.transplants,
                                scanned |-> scan.scanned,
                                created |-> res.created,
                                error |-> res.error]
       ELSE /\ trees' = trees
            /\ merge_ev' = [NoMerge("merge") EXCEPT !.swarm = swarm,
                                                    !.stage = stage]

\* the game stage of the local peer makes the tree of one of its own batch
\* items and appends its own actions to it
LocalStage(batch_id, question) ==
    /\ trees[<<peer_id, batch_id>>].kind = "absent"
    /\ QuestionId(question) = batch_id
    /\ trees' = [trees EXCEPT ![<<peer_id, batch_id>>] =
                     GameTree(question, 0, <<"l1", "l2">>, "")]
    /\ merge_ev' = NoMerge("local")
    /\ UNCHANGED <<num_transplant_trees, num_generations>>

\* the data manager while the runs follow the coordination controller
DataIdle ==
    /\ trees = NoTrees
    /\ num_transplant_trees = 1
    /\ num_generations = expected_generations
    /\ merge_ev = NoMerge("init")

\* the data manager as constructed, for every configured cap, with
\* num_generations configured or left unset
DataStart ==
    /\ trees = NoTrees
    /\ num_transplant_trees \in 0..MaxTransplants
    /\ num_generations \in {0, expected_generations}
    /\ merge_ev = NoMerge("init")

----------------------------------------------------------------------------
\* History record of the last step

\* Mutant: a failed flush leaves the submission-side cache empty
CachedAfterFailureEmpty(ok, synced, sim) == IF ok THEN synced ELSE <<>>

\* the submission-side cache after a flush: synchronised by
\* _submit_current_rewards on success, copied from sim_zero_cache on failure
CachedAfterFlush(ok, synced, sim) == IF ok THEN synced ELSE sim

\* history: what is left uncovered of u once the submit_reward call of rpcs,
\* if one was accepted, has been counted
UnpaidAfter(u, rpcs) ==
    IF Accepted(rpcs, "submit_reward")
    THEN LET paid == rpcs[CHOOSE i \in 1..Len(rpcs) :
                             rpcs[i].rpc = "submit_reward" /\ rpcs[i].ok].amount
         IN  IF paid >= u THEN 0 ELSE u - paid
    ELSE u

NoEvent(op) ==
    [op |-> op, raised |-> FALSE, rba |-> <<>>, total |-> 0, queued |-> -1,
     outcome |-> "none", rpcs |-> <<>>, health |-> 0, slept |-> 0,
     answer |-> -1, local |-> -1, behind |-> 0, result |-> "none"]

\* history: a full flush is logged with its time, its round of the loop and
\* the hook that made it
LogFlush(rpcs, op) ==
    IF FullFlush(rpcs)
    THEN Append(flush_log, [at |-> now, iter |-> iter, op |-> op])
    ELSE flush_log

Start(limit) ==
    /\ iter_limit = limit
    /\ round = 0
    /\ now = 0
    /\ time_since_submit = 0
    /\ batched_signals = 0
    /\ submitted_this_round = FALSE
    /\ cached_zero_reward_rounds = <<>>
    /\ sim_zero_cache = <<>>
    /\ pending_rewards = <<>>
    /\ pc = "rewards"
    /\ check_backoff = check_interval
    /\ block_elapsed = 0
    /\ polls = 0
    /\ iter = 0
    /\ owed = 0
    /\ flush_log = <<>>
    /\ zero_log = <<>>
    /\ ev = NoEvent("init")
    /\ unpaid = 0
    /\ health_threads = <<>>

\* train_timeout is left at its default
DefaultTimeout == timeout_s = train_timeout

Init == Start(MaxIter) /\ DefaultTimeout /\ DataIdle

\* wall-clock time passes; the program reads it in the two hooks only, and
\* only to compare the time since the last flush with submit_frequency, so
\* the clock is followed up to one hour past that
Tick ==
    /\ pc \in {"rewards", "advanced"}
    /\ UNCHANGED dataVars
    /\ UNCHANGED <<unpaid, health_threads, timeout_s>>
    /\ now < MaxTime
    /\ now - time_since_submit <= submit_frequency
    /\ now' = now + 1
    /\ ev' = NoEvent("tick")
    /\ UNCHANGED <<iter_limit, round, time_since_submit, batched_signals,
                   submitted_this_round, cached_zero_reward_rounds,
                   sim_zero_cache, pending_rewards, pc, check_backoff,
                   block_elapsed, polls, iter, owed,
                   flush_log, zero_log>>

\* _hook_after_rewards_updated.  ledger is what the read of the rewards
\* yields, rfails and wfails are the failures the coordinator answers
\* submit_reward and submit_winners with.
HookAfterRewardsUpdated(ledger, rfails, wfails) ==
    /\ pc = "rewards"
    /\ UNCHANGED dataVars
    /\ UNCHANGED timeout_s
    /\ pc' = "train"
    /\ UNCHANGED <<round, check_backoff, block_elapsed, polls, iter, iter_limit>>
    /\ IF TotalsRaise(ledger)
       THEN \* caught by the hook's except clause
            /\ rfails = 0 /\ wfails = 0
            /\ ev' = [NoEvent("rewards") EXCEPT !.raised = TRUE,
                                                !.outcome = "raised"]
            /\ UNCHANGED <<now, time_since_submit, batched_signals,
                           submitted_this_round, cached_zero_reward_rounds,
                           sim_zero_cache, pending_rewards, owed, unpaid,
                           health_threads,
                           flush_log, zero_log>>
       ELSE
       LET rewards_by_agent == GetTotalRewardsByAgent(ledger)
           my_rewards_total == GetReward(rewards_by_agent, peer_id)
           per_round_reward == PerRoundReward(my_rewards_total, sim_zero_cache)
           sim == NextZeroCache(my_rewards_total, sim_zero_cache, round)
           pending == Append(pending_rewards, per_round_reward)
           batched == batched_signals + Fixed(per_round_reward)
           aggregated_reward == SumSeq(pending)
           res == SubmitCurrentRewards(aggregated_reward, rewards_by_agent,
                                       <<>>, sim, round, rfails, wfails)
           e == [NoEvent("rewards") EXCEPT !.rba = rewards_by_agent,
                                           !.total = my_rewards_total,
                                           !.queued = per_round_reward]
       IN  IF rewards_by_agent = <<>>
           THEN \* "No rewards data": return
                /\ rfails = 0 /\ wfails = 0
                /\ ev' = [NoEvent("rewards") EXCEPT !.outcome = "no_data"]
                /\ UNCHANGED <<now, time_since_submit, batched_signals,
                               submitted_this_round, cached_zero_reward_rounds,
                               sim_zero_cache, pending_rewards, owed, unpaid,
                           health_threads,
                               flush_log, zero_log>>
           ELSE
           /\ sim_zero_cache' = sim
           /\ zero_log' = IF my_rewards_total > 0 THEN <<>>
                          ELSE IF InCache(sim_zero_cache, round) THEN zero_log
                          ELSE Append(zero_log, round)
           /\ IF GateClosed(now, time_since_submit)
              THEN /\ rfails = 0 /\ wfails = 0
                   /\ pending_rewards' = pending
                   /\ batched_signals' = batched
                   /\ owed' = owed + per_round_reward
                   /\ unpaid' = unpaid + per_round_reward
                   /\ UNCHANGED health_threads
                   /\ ev' = [e EXCEPT !.outcome = "gated"]
                   /\ UNCHANGED <<now, time_since_submit,
                                  submitted_this_round,
                                  cached_zero_reward_rounds, flush_log>>
              ELSE IF pending = <<>>
              THEN /\ rfails = 0 /\ wfails = 0
                   /\ pending_rewards' = pending
                   /\ batched_signals' = batched
                   /\ owed' = owed + per_round_reward
                   /\ unpaid' = unpaid + per_round_reward
                   /\ UNCHANGED health_threads
                   /\ ev' = [e EXCEPT !.outcome = "gated"]
                   /\ UNCHANGED <<now, time_since_submit,
                                  submitted_this_round,
                                  cached_zero_reward_rounds, flush_log>>
              ELSE \* the gate is open: flush
                   /\ UNCHANGED now
                   /\ time_since_submit' =
                          TimerAfterFlush(res.ok, now, time_since_submit)
                   /\ pending_rewards' = QueueAfterFlush(res.ok, pending)
                   /\ batched_signals' = BatchedAfterFlush(res.ok, batched)
                   /\ cached_zero_reward_rounds' =
                          CachedAfterFlush(res.ok, res.cached, sim)
                   /\ submitted_this_round' =
                          (res.submitted \/ submitted_this_round)
                   /\ owed' = IF FullFlush(res.rpcs) THEN 0
                              ELSE owed + per_round_reward
                   /\ unpaid' = UnpaidAfter(unpaid + per_round_reward, res.rpcs)
                   /\ health_threads' = IF res.health = 1
                                        THEN Append(health_threads, "running")
                                        ELSE health_threads
                   /\ flush_log' = LogFlush(res.rpcs, "rewards")
                   /\ ev' = [e EXCEPT !.outcome = IF res.ok THEN "success"
                                                  ELSE "failed",
                                      !.rpcs = res.rpcs,
                                      !.health = res.health]

\* between the two hooks the framework trains and advances the round
AdvanceRound(step) ==
    /\ pc = "train"
    /\ UNCHANGED dataVars
    /\ UNCHANGED <<unpaid, health_threads, timeout_s>>
    /\ round + step <= max_round
    /\ round' = round + step
    /\ pc' = "advanced"
    /\ ev' = NoEvent("advance_round")
    /\ UNCHANGED <<iter_limit, now, time_since_submit, batched_signals,
                   submitted_this_round, cached_zero_reward_rounds,
                   sim_zero_cache, pending_rewards, check_backoff,
                   block_elapsed, polls, iter, owed,
                   flush_log, zero_log>>

\* _try_submit_to_chain once its time gate is open: the RPCs issued and the
\* fields it leaves.  rok and wok say whether the coordinator accepts the call.
TrySubmitToChain(signal_by_agent, rnd, batched, since, t, rok, wok) ==
    LET rew == Rpc("submit_reward", rnd, IntOf(batched), <<>>, rok)
        max_agent == IF Len(signal_by_agent) > 0
                     THEN MaxItem(signal_by_agent).agent
                     ELSE peer_id
        win == Rpc("submit_winners", rnd, 0, <<max_agent>>, wok)
    IN  IF ~rok
        THEN [rpcs |-> <<rew>>, batched |-> batched, since |-> since,
              submitted |-> FALSE]
        ELSE IF ~wok
        THEN [rpcs |-> <<rew, win>>, batched |-> 0, since |-> since,
              submitted |-> FALSE]
        ELSE [rpcs |-> <<rew, win>>, batched |-> 0, since |-> t,
              submitted |-> TRUE]

\* Mutant: the fallback runs whatever the mark says
FallbackAlways(submitted) == TRUE

\* the guard of the fallback: if not self.submitted_this_round
FallbackWanted(submitted) == ~submitted

\* _hook_after_round_advanced up to the call of agent_block, whose first
\* statements (start_time, check_backoff) it includes
HookAfterRoundAdvanced(ledger, rok, wok) ==
    /\ pc = "advanced"
    /\ UNCHANGED dataVars
    /\ UNCHANGED <<health_threads, timeout_s>>
    /\ pc' = "block"
    /\ check_backoff' = check_interval
    /\ block_elapsed' = 0
    /\ polls' = 0
    /\ UNCHANGED <<round, iter, iter_limit, cached_zero_reward_rounds, sim_zero_cache,
                   pending_rewards, zero_log>>
    /\ LET raised == TotalsRaise(ledger)
           signal_by_agent == IF raised THEN <<>>
                              ELSE GetTotalRewardsByAgent(ledger)
           res == TrySubmitToChain(signal_by_agent, round, batched_signals,
                                   time_since_submit, now, rok, wok)
           e == [NoEvent("advanced") EXCEPT !.raised = raised,
                                            !.rba = signal_by_agent]
       IN  IF ~FallbackWanted(submitted_this_round)
           THEN /\ rok /\ wok /\ ledger = LedgerEmpty
                /\ ev' = [NoEvent("advanced") EXCEPT !.outcome = "skipped"]
                /\ UNCHANGED <<now, time_since_submit, batched_signals,
                               submitted_this_round, owed, unpaid,
                               flush_log>>
           ELSE IF ~FallbackOpen(now, time_since_submit)
           THEN /\ rok /\ wok /\ ledger = LedgerEmpty
                /\ ev' = [NoEvent("advanced") EXCEPT !.outcome = "gated"]
                /\ UNCHANGED <<now, time_since_submit, batched_signals,
                               submitted_this_round, owed, unpaid,
                               flush_log>>
           ELSE /\ UNCHANGED now
                /\ batched_signals' = res.batched
                /\ time_since_submit' = res.since
                /\ submitted_this_round' =
                       (res.submitted \/ submitted_this_round)
                /\ owed' = IF FullFlush(res.rpcs) THEN 0 ELSE owed
                /\ unpaid' = UnpaidAfter(unpaid, res.rpcs)
                /\ flush_log' = LogFlush(res.rpcs, "advanced")
                /\ ev' = [e EXCEPT !.outcome = IF res.submitted THEN "success"
                                               ELSE "failed",
                                   !.rpcs = res.rpcs]

----------------------------------------------------------------------------
\* agent_block, one loop iteration per step

\* what the coordinator and the transport answer in one iteration; the
\* coordinator is at most one round ahead of the peer
Responses(local) ==
    {[kind |-> k, round |-> 0] : k \in {"probe_raises", "query_raises", "none"}}
    \cup {[kind |-> "round", round |-> r] :
              r \in {q \in 0..max_round : q <= local + 1}}

\* Mutant: the backoff doubles without a cap
NextBackoffUncapped(b) == b * 2

\* check_backoff = min(check_backoff * 2, max_check_interval)
NextBackoff(b) == Min2(b * 2, max_check_interval)

\* Mutant: a failed query doubles the backoff as a stale answer does
BackoffAfterFailureDoubled(b) == Min2(b * 2, max_check_interval)

\* the except branch sleeps check_interval and continues: check_backoff is
\* not assigned
BackoffAfterFailure(b) == b

\* Mutant: every answer is taken as a catch-up
CaughtUpAlways(round_num, local) == TRUE

\* if round_num >= self.state.round
CaughtUp(round_num, local) == round_num >= local

\* Mutant: the terminal round is never recognised
TerminalRoundNever(round_num) == FALSE

\* if round_num == self.max_round - 1
TerminalRound(round_num) == round_num = max_round - 1

\* Mutant: the loop never looks at the clock
TimedOutNever(elapsed, timeout) == FALSE

\* the loop is left when time.monotonic() - start_time < self.train_timeout
\* no longer holds
TimedOut(elapsed, timeout) == elapsed >= timeout

\* what the call of agent_block hands to its caller: every way out of the
\* function (the return after joining, the return on the terminal round and
\* the end of the body after "Training timed out!") yields None, and none
\* raises
BlockResult(outcome) == "None"

\* agent_block returned: its locals are gone, the hook clears the mark and the
\* round loop goes on
BlockReturns(r) ==
    /\ submitted_this_round' = FALSE
    /\ iter' = iter + 1
    /\ pc' = IF iter + 1 >= iter_limit \/ r >= max_round THEN "done" ELSE "rewards"
    /\ polls' = 0
    /\ block_elapsed' = 0

\* time.sleep(dur), after which the loop continues; stall stands for calls
\* that take until the timeout, limit bounds the iterations of one call
BlockSleeps(dur, stall, limit) ==
    /\ polls < limit \/ stall
    /\ polls' = polls + 1
    /\ block_elapsed' = IF stall THEN timeout_s
                        ELSE Min2(block_elapsed + dur, timeout_s)
    /\ pc' = "block"
    /\ UNCHANGED <<submitted_this_round, iter>>

\* history: the sleeps the current call has taken so far because the
\* coordinator was behind
BehindSoFar == IF ev.op = "poll" THEN ev.behind ELSE 0

AgentBlockPoll(resp, stall, limit) ==
    /\ pc = "block"
    /\ UNCHANGED dataVars
    /\ UNCHANGED <<unpaid, health_threads, timeout_s>>
    /\ UNCHANGED <<iter_limit, now, time_since_submit, batched_signals,
                   cached_zero_reward_rounds, sim_zero_cache, pending_rewards,
                   owed, flush_log, zero_log>>
    /\ IF TimedOut(block_elapsed, timeout_s)
       THEN \* "Training timed out!"
            /\ resp.kind = "none" /\ ~stall
            /\ BlockReturns(round)
            /\ ev' = [NoEvent("poll") EXCEPT !.outcome = "timeout",
                                             !.behind = BehindSoFar,
                                             !.result = BlockResult("timeout")]
            /\ check_backoff' = check_interval
            /\ UNCHANGED round
       ELSE IF resp.kind = "probe_raises"
       THEN \* get_visible_maddrs raises outside every try
            /\ ~stall
            /\ pc' = "crashed"
            /\ ev' = [NoEvent("poll") EXCEPT !.outcome = "crashed",
                                             !.behind = BehindSoFar,
                                             !.result = "raised"]
            /\ UNCHANGED <<round, check_backoff, submitted_this_round, iter,
                           polls, block_elapsed>>
       ELSE IF resp.kind = "query_raises"
       THEN /\ BlockSleeps(check_interval, stall, limit)
            /\ ev' = [NoEvent("poll") EXCEPT !.outcome = "query_failed",
                                             !.behind = BehindSoFar,
                                             !.slept = check_interval]
            /\ check_backoff' = BackoffAfterFailure(check_backoff)
            /\ UNCHANGED round
       ELSE LET round_num == IF resp.kind = "none" THEN round ELSE resp.round
            IN  IF CaughtUp(round_num, round)
                THEN /\ ~stall
                     /\ check_backoff' = check_interval
                     /\ round' = round_num
                     /\ BlockReturns(round_num)
                     /\ ev' = [NoEvent("poll") EXCEPT
                                  !.outcome = "joined",
                                  !.answer = round_num,
                                  !.local = round,
                                  !.behind = BehindSoFar,
                                  !.result = BlockResult("joined")]
                ELSE /\ UNCHANGED round
                     /\ IF TerminalRound(round_num)
                        THEN /\ ~stall
                             /\ check_backoff' = check_interval
                             /\ BlockReturns(round)
                             /\ ev' = [NoEvent("poll") EXCEPT
                                          !.outcome = "terminal",
                                          !.answer = round_num,
                                          !.local = round,
                                          !.behind = BehindSoFar + 1,
                                          !.result = BlockResult("terminal"),
                                          !.slept = check_backoff]
                        ELSE /\ check_backoff' = NextBackoff(check_backoff)
                             /\ BlockSleeps(check_backoff, stall, limit)
                             /\ ev' = [NoEvent("poll") EXCEPT
                                          !.outcome = "behind",
                                          !.answer = round_num,
                                          !.local = round,
                                          !.behind = BehindSoFar + 1,
                                          !.slept = check_backoff]

----------------------------------------------------------------------------
\* _call_health_check: the daemon thread it starts

\* Mutant: the request thread resets the flush timer when it is done
TimerAfterRequestReset(outcome, since) == 0

\* _request posts to the health endpoint and logs what comes back; it
\* assigns no attribute of the manager
TimerAfterRequest(outcome, since) == since

\* status 200, another status, requests.post raising (the 15 s timeout
\* included); a thread that never finishes stays "running"
HealthOutcomes == {"ok", "bad_status", "raised"}

\* the i-th thread finishes with outcome
HealthRequest(i, outcome) ==
    /\ i \in 1..Len(health_threads)
    /\ health_threads[i] = "running"
    /\ health_threads' = [health_threads EXCEPT ![i] = outcome]
    /\ time_since_submit' = TimerAfterRequest(outcome, time_since_submit)
    /\ UNCHANGED <<round, now, batched_signals, submitted_this_round,
                   cached_zero_reward_rounds, sim_zero_cache, pending_rewards,
                   pc, check_backoff, block_elapsed, polls, iter, iter_limit,
                   owed, flush_log, zero_log, ev, unpaid, timeout_s>>
    /\ UNCHANGED dataVars

----------------------------------------------------------------------------

Next ==
    \/ Tick
    \/ \E ledger \in Ledgers, rfails \in Fails, wfails \in Fails :
          HookAfterRewardsUpdated(ledger, rfails, wfails)
    \/ AdvanceRound(1)
    \/ \E ledger \in Ledgers, rok \in BOOLEAN, wok \in BOOLEAN :
          HookAfterRoundAdvanced(ledger, rok, wok)
    \/ \E resp \in Responses(round), stall \in BOOLEAN :
          AgentBlockPoll(resp, stall, MaxPolls)

Spec == Init /\ [][Next]_vars

\* Runs of more rounds in which the wall clock stands still, so that the gate
\* stays closed, and the coordinator answers every poll with a round; the
\* framework may also run a round again without advancing it
InitQuiet == Start(MaxQuietIter) /\ DefaultTimeout /\ DataIdle

NextQuiet ==
    \/ \E ledger \in Ledgers : HookAfterRewardsUpdated(ledger, 0, 0)
    \/ \E step \in 0..1 : AdvanceRound(step)
    \/ HookAfterRoundAdvanced(LedgerEmpty, TRUE, TRUE)
    \/ \E resp \in {r \in Responses(round) : r.kind \in {"none", "round"}} :
          AgentBlockPoll(resp, FALSE, MaxPolls)

SpecQuiet == InitQuiet /\ [][NextQuiet]_vars

\* Runs that follow the poller: the clock of the submission gate stands still
\* and nothing is earned, while the coordinator may stay behind or fail for
\* MaxBlockPolls iterations of one call of agent_block
InitBlock == Start(MaxBlockIter) /\ DefaultTimeout /\ DataIdle

NextBlock ==
    \/ HookAfterRewardsUpdated(LedgerEmpty, 0, 0)
    \/ \E step \in 0..1 : AdvanceRound(step)
    \/ HookAfterRoundAdvanced(LedgerEmpty, TRUE, TRUE)
    \/ \E resp \in Responses(round), stall \in BOOLEAN :
          AgentBlockPoll(resp, stall, MaxBlockPolls)

SpecBlock == InitBlock /\ [][NextBlock]_vars

\* Runs in which the timeout is reached by the sleeps themselves: the
\* manager is constructed with a short train_timeout, every sleep advances
\* the monotonic clock by its duration, and the coordinator answers each
\* query as it likes (a failure, no round, a stale or a later round).  The
\* coordination thread keeps running, so an iteration of the loop that can
\* be taken is eventually taken.
InitTerminate ==
    Start(MaxBlockIter) /\ timeout_s = MaxTrainTimeout /\ DataIdle

PollStep ==
    \E resp \in {r \in Responses(round) : r.kind # "probe_raises"} :
        AgentBlockPoll(resp, FALSE, timeout_s)

NextTerminate ==
    \/ HookAfterRewardsUpdated(LedgerEmpty, 0, 0)
    \/ \E step \in 0..1 : AdvanceRound(step)
    \/ HookAfterRoundAdvanced(LedgerEmpty, TRUE, TRUE)
    \/ PollStep

SpecTerminate ==
    InitTerminate /\ [][NextTerminate]_vars /\ WF_vars(PollStep)

\* Runs that follow the health threads: the coordination thread as in Spec,
\* with a coordinator that answers every poll, interleaved with the threads
\* _call_health_check started
InitHealth == Start(MaxHealthIter) /\ DefaultTimeout /\ DataIdle

\* the steps of the coordination thread in these runs
CoordinationStep ==
    \/ Tick
    \/ \E ledger \in Ledgers, rfails \in Fails, wfails \in Fails :
          HookAfterRewardsUpdated(ledger, rfails, wfails)
    \/ AdvanceRound(1)
    \/ \E ledger \in Ledgers, rok \in BOOLEAN, wok \in BOOLEAN :
          HookAfterRoundAdvanced(ledger, rok, wok)
    \/ \E resp \in {r \in Responses(round) : r.kind \in {"none", "round"}} :
          AgentBlockPoll(resp, FALSE, MaxPolls)

NextHealth ==
    \/ CoordinationStep
    \/ \E i \in 1..Len(health_threads), outcome \in HealthOutcomes :
          HealthRequest(i, outcome)

SpecHealth == InitHealth /\ [][NextHealth]_vars

\* Runs of the merge: the framework calls prepare_states with the swarm
\* states it fetched, at any stage, and the local game stage makes the local
\* peer's own trees; the coordination controller is left as constructed
InitMerge == Start(MaxIter) /\ DefaultTimeout /\ DataStart

NextMerge ==
    \/ \E swarm \in Swarms, stage \in 0..MaxStage :
          PrepareStates(swarm, stage) /\ UNCHANGED managerVars
    \/ \E batch_id \in BatchIds, question \in {"q1", "q2", "q3"} :
          LocalStage(batch_id, question) /\ UNCHANGED managerVars

SpecMerge == InitMerge /\ [][NextMerge]_vars

----------------------------------------------------------------------------
\* Runs of a whole game, from construction to the last of its max_round
\* rounds, in which the coordinator recovers: it may fail calls during the
\* first round of the loop and accepts every call from the second round on;
\* the wall clock advances between the steps of the loop, and the coordinator
\* answers each poll with the peer's round.  The coordination thread keeps
\* running and the clock keeps going.

\* every round's ledger holds rewards: the local peer earns, or it is absent
\* from a ledger that others earned in
LiveLedgers == {LedgerTie, LedgerZero}

\* the failures the coordinator still makes
LiveFails == IF iter = 0 THEN Fails ELSE {0}

LiveAnswers == IF iter = 0 THEN BOOLEAN ELSE {TRUE}

InitLive == Start(max_round) /\ DefaultTimeout /\ DataIdle

\* the steps of the round loop in these runs; the round-advanced hook reads
\* the ledger only when its fallback runs
LoopStep ==
    \/ \E ledger \in LiveLedgers, rfails \in LiveFails, wfails \in LiveFails :
          HookAfterRewardsUpdated(ledger, rfails, wfails)
    \/ AdvanceRound(1)
    \/ \E ledger \in LiveLedgers \cup {LedgerEmpty},
          rok \in LiveAnswers, wok \in LiveAnswers :
          HookAfterRoundAdvanced(ledger, rok, wok)
    \/ AgentBlockPoll([kind |-> "round", round |-> round], FALSE, MaxPolls)

NextLive ==
    \/ Tick
    \/ LoopStep

SpecLive ==
    InitLive /\ [][NextLive]_vars /\ WF_vars(LoopStep) /\ WF_vars(Tick)

----------------------------------------------------------------------------
\* Vocabulary of the properties

IsRewardCall(c) == c.rpc = "submit_reward"
IsWinnersCall(c) == c.rpc = "submit_winners"
RewardCalls(rpcs) == SelectSeq(rpcs, IsRewardCall)
WinnersCalls(rpcs) == SelectSeq(rpcs, IsWinnersCall)

\* the amount of the submit_reward call the coordinator accepted
AcceptedAmount(rpcs) ==
    rpcs[CHOOSE i \in 1..Len(rpcs) : IsRewardCall(rpcs[i]) /\ rpcs[i].ok].amount

IsPrefix(s, t) ==
    /\ Len(s) <= Len(t)
    /\ \A i \in 1..Len(s) : s[i] = t[i]

\* a retry loop's calls: at most three, none after the first accepted one, and
\* three of them when none was accepted
RetriedThrice(calls) ==
    /\ Len(calls) <= 3
    /\ \A i \in 1..Len(calls) : calls[i].ok => i = Len(calls)
    /\ (\A i \in 1..Len(calls) : ~calls[i].ok) => Len(calls) \in {0, 3}

\* the step just taken was a flush of the primary path
PrimaryFlush(e) == e.op = "rewards" /\ e.rpcs # <<>>

\* the step just taken queued a per-round value
Aggregated(e) == e.op = "rewards" /\ e.queued >= 0

----------------------------------------------------------------------------
\* C1: on every full flush of the primary gate the amount the coordinator
\* accepted is the sum of the per-round values queued since the previous full
\* flush (of either path), the one queued by this very call included: nothing
\* is added to that sum and nothing is left out.
C1_AmountIsSumSinceLastFlush ==
    [][PrimaryFlush(ev') /\ FullFlush(ev'.rpcs) =>
          AcceptedAmount(ev'.rpcs) = owed + ev'.queued]_vars

\* C2: full flushes, whichever hook made them, lie at least submit_frequency
\* hours apart, the first one that long after startup (time 0), and the flush
\* timer moves only with a full flush: a failed flush leaves it alone.
C2_FlushesSpaced ==
    /\ \A i \in 1..Len(flush_log) :
          flush_log[i].at - (IF i = 1 THEN 0 ELSE flush_log[i - 1].at)
              >= submit_frequency
    /\ time_since_submit =
          (IF flush_log = <<>> THEN 0 ELSE flush_log[Len(flush_log)].at)

\* two full flushes have happened, the later one after a failed attempt
C2_Witness ==
    /\ Len(flush_log) >= 2
    /\ FullFlush(ev.rpcs)
    /\ \E i \in 1..Len(ev.rpcs) : ~ev.rpcs[i].ok

\* C3: a primary flush calls submit_reward at most 3 times and stops at the
\* first success; after 3 failures it calls submit_winners not at all, reports
\* failure and leaves the queue as it was; submit_winners is called, at most 3
\* times, only after submit_reward was accepted; the flush reports success
\* exactly when both calls were accepted; the hook always returns.
C3_BoundedRetries ==
    [][PrimaryFlush(ev') =>
          LET rew == RewardCalls(ev'.rpcs)
              win == WinnersCalls(ev'.rpcs)
          IN  /\ ev'.rpcs = rew \o win
              /\ rew # <<>>
              /\ RetriedThrice(rew)
              /\ RetriedThrice(win)
              /\ win # <<>> <=> Accepted(rew, "submit_reward")
              /\ ev'.outcome = "success" <=> FullFlush(ev'.rpcs)
              /\ ev'.outcome \in {"success", "failed"}
              /\ ~FullFlush(ev'.rpcs) =>
                    pending_rewards' = Append(pending_rewards, ev'.queued)
              /\ pc' = "train"]_vars

\* submit_reward failed three times: no submit_winners, the queue is kept
C3_Witness ==
    /\ PrimaryFlush(ev)
    /\ Len(ev.rpcs) = 3
    /\ \A i \in 1..3 : IsRewardCall(ev.rpcs[i]) /\ ~ev.rpcs[i].ok
    /\ ev.outcome = "failed"
    /\ Len(pending_rewards) >= 2

\* C4: the queue loses values only by being emptied, and only in the step of
\* a full primary flush; every other step keeps the queued values in order.
C4_QueueClearedOnlyOnSuccess ==
    [][\/ IsPrefix(pending_rewards, pending_rewards')
       \/ /\ pending_rewards' = <<>>
          /\ PrimaryFlush(ev')
          /\ FullFlush(ev'.rpcs)]_vars

\* a flush failed at submit_winners and two values are still queued
C4_Witness ==
    /\ PrimaryFlush(ev)
    /\ Accepted(ev.rpcs, "submit_reward")
    /\ ~Accepted(ev.rpcs, "submit_winners")
    /\ Len(pending_rewards) >= 2

\* the last n elements of s
LastN(s, n) == SubSeq(s, Len(s) - n + 1, Len(s))

\* C5: the zero-reward cache never holds more than 3 rounds, and recording a
\* round into a full cache removes the round recorded earliest: the cache is
\* always the last (at most 3) rounds recorded since it was cleared.
C5_CacheBoundedFifo ==
    /\ Len(sim_zero_cache) <= 3
    /\ sim_zero_cache = LastN(zero_log, Min2(3, Len(zero_log)))

\* a fourth round was recorded into a full cache
C5_Witness ==
    /\ Aggregated(ev)
    /\ Len(zero_log) >= 4
    /\ Len(sim_zero_cache) = 3

\* C6: when the rewards hook returns from a call with a strictly positive
\* local total, the zero-reward cache is empty, whether the gate was closed,
\* the flush succeeded or the flush failed.
C6_PositiveClearsCache ==
    Aggregated(ev) /\ ev.total > 0 => sim_zero_cache = <<>>

\* a positive round found a non-empty cache (its size is part of the value
\* queued) and its flush failed
C6_Witness ==
    /\ Aggregated(ev)
    /\ ev.total > 0
    /\ ev.queued > IntOf(ev.total + Fixed(1))
    /\ ev.outcome = "failed"
    /\ sim_zero_cache = <<>>

\* the cache after a round with no positive total: the round is in it, and
\* the cache is untouched when it already was
RoundRecorded(before, after, r) ==
    /\ InCache(after, r)
    /\ InCache(before, r) => after = before

\* C7 as stated: the per-round value is total + 1 + (cache size before the
\* call) when total > 0, with the cache cleared; otherwise it is the cache
\* size before the call, between 0 and 3, and the round is recorded unless
\* already present.
C7_ValueIsReferenceRule ==
    [][Aggregated(ev') =>
          IF ev'.total > 0
          THEN /\ Fixed(ev'.queued) = ev'.total + Fixed(1 + Len(sim_zero_cache))
               /\ sim_zero_cache' = <<>>
          ELSE /\ ev'.queued = Len(sim_zero_cache)
               /\ ev'.queued \in 0..3
               /\ RoundRecorded(sim_zero_cache, sim_zero_cache', round)]_vars

\* C7 amended: when total > 0 the per-round value is the integer part of
\* total + 1 + (cache size before the call); the rest as stated.
C7_ValueIsTruncatedRule ==
    [][Aggregated(ev') =>
          IF ev'.total > 0
          THEN /\ ev'.queued \in Nat
               /\ Fixed(ev'.queued) <= ev'.total + Fixed(1 + Len(sim_zero_cache))
               /\ ev'.total + Fixed(1 + Len(sim_zero_cache)) < Fixed(ev'.queued + 1)
               /\ sim_zero_cache' = <<>>
          ELSE /\ ev'.queued = Len(sim_zero_cache)
               /\ ev'.queued \in 0..3
               /\ RoundRecorded(sim_zero_cache, sim_zero_cache', round)]_vars

\* a total of 0.5 met a non-empty cache: the value queued is 2 or more
C7_Witness ==
    /\ Aggregated(ev)
    /\ ev.total = 1
    /\ ev.queued >= 2
    /\ sim_zero_cache = <<>>

\* C8: when the rewards hook returns from a full primary flush, the flush
\* timer is the time of the flush, the queue is empty, the accumulator is 0
\* and the round is marked submitted.
C8_FullFlushResets ==
    PrimaryFlush(ev) /\ FullFlush(ev.rpcs) =>
        /\ time_since_submit = now
        /\ pending_rewards = <<>>
        /\ batched_signals = 0
        /\ submitted_this_round

\* a full primary flush of more than the value queued by the same call
C8_Witness ==
    /\ PrimaryFlush(ev)
    /\ FullFlush(ev.rpcs)
    /\ AcceptedAmount(ev.rpcs) > ev.queued
    /\ time_since_submit >= submit_frequency

\* agent a is the first one, in iteration order, to hold the greatest total
IsFirstMax(rba, a) ==
    \E i \in 1..Len(rba) :
        /\ rba[i].agent = a
        /\ \A j \in 1..Len(rba) : rba[j].total <= rba[i].total
        /\ \A j \in 1..(i - 1) : rba[j].total < rba[i].total

\* C9: every submit_winners call, of the primary flush and of the fallback,
\* names exactly one winner, and when there are totals it is the first agent
\* in iteration order whose total is the greatest.
C9_WinnerIsFirstMax ==
    \A i \in 1..Len(ev.rpcs) :
        IsWinnersCall(ev.rpcs[i]) =>
            /\ Len(ev.rpcs[i].winners) = 1
            /\ ev.rba # <<>> => IsFirstMax(ev.rba, ev.rpcs[i].winners[1])

\* a winner was announced although a later agent holds the same total
C9_Witness ==
    \E i \in 1..Len(ev.rpcs) :
        /\ IsWinnersCall(ev.rpcs[i])
        /\ ev.rpcs[i].ok
        /\ \E j, k \in 1..Len(ev.rba) :
              /\ j < k
              /\ ev.rba[j].agent = ev.rpcs[i].winners[1]
              /\ ev.rba[k].total = ev.rba[j].total

\* the primary gate made a full flush in the current round of the loop
PrimaryFlushedThisRound ==
    \E i \in 1..Len(flush_log) :
        flush_log[i].iter = iter /\ flush_log[i].op = "rewards"

\* C10: after a full primary flush the fallback of the same round issues no
\* RPC, no round sees two full flushes, and the submitted mark is cleared only
\* by the step in which agent_block returns.
C10_OneFlushPerRound ==
    /\ [](\A i, j \in 1..Len(flush_log) :
             flush_log[i].iter = flush_log[j].iter => i = j)
    /\ [][/\ ev'.op = "advanced" /\ PrimaryFlushedThisRound =>
                ev'.rpcs = <<>>
          /\ submitted_this_round /\ ~submitted_this_round' =>
                /\ ev'.op = "poll"
                /\ ev'.outcome \in {"joined", "terminal", "timeout"}]_vars

\* the fallback was skipped although its own time gate had opened
C10_Witness ==
    /\ ev.op = "advanced"
    /\ ev.outcome = "skipped"
    /\ PrimaryFlushedThisRound
    /\ FallbackOpen(now, time_since_submit)

----------------------------------------------------------------------------
\* Vocabulary of the poller's properties

\* the step just taken was an iteration of agent_block whose query was answered
Answered(e) == e.op = "poll" /\ e.answer >= 0

\* the k-th sleep of the stated sequence 5, 10, 20, 40, 80, 160, 300, 300, ...
StatedSleep(k) == Min2(5 * 2^(k - 1), 300)

\* what the caller of agent_block has in hand when the call is over: the
\* value returned and the local round
CallerSees(result, local) == <<result, local>>

----------------------------------------------------------------------------
\* C11: the local round never decreases, whatever the coordinator answers
\* (stale rounds, failures, no round at all); and a step of agent_block
\* changes it only by assigning the round a successful query returned, which
\* is then at least the local round.
C11_RoundMonotone ==
    [][/\ round' >= round
       /\ pc = "block" /\ round' # round =>
              /\ ev'.outcome = "joined"
              /\ ev'.answer = round'
              /\ ev'.answer >= round]_vars

\* a call joined a later round after the coordinator had first been behind
C11_Witness ==
    /\ ev.outcome = "joined"
    /\ ev.answer > ev.local
    /\ ev.behind >= 1
    /\ round = ev.answer

\* C12: within one call of agent_block the k-th sleep taken because the
\* coordinator is behind lasts min(5 * 2^(k-1), 300) seconds; an iteration
\* whose query failed sleeps check_interval and leaves the backoff as it was;
\* k starts again at 1 in the call after a catch-up.
C12_BackoffSequence ==
    [][ev'.op = "poll" =>
          /\ ev'.outcome \in {"behind", "terminal"} =>
                 /\ ev'.behind = BehindSoFar + 1
                 /\ ev'.slept = StatedSleep(ev'.behind)
          /\ ev'.outcome = "query_failed" =>
                 /\ ev'.behind = BehindSoFar
                 /\ ev'.slept = check_interval
                 /\ check_backoff' = check_backoff]_vars

\* the seventh behind-sleep of a call, 300 seconds long, in a call that also
\* had a failed query
C12_Witness ==
    /\ ev.outcome = "behind"
    /\ ev.behind = 7
    /\ ev.slept = 300
    /\ polls = 8

\* C13: an answer that is behind the local round and equal to max_round - 1
\* ends the call after the one backoff sleep of that iteration, the local
\* round unchanged; the call ends on the terminal round only in that case, so
\* not on an iteration whose query failed or caught up.
C13_TerminalRound ==
    [][ev'.op = "poll" =>
          /\ Answered(ev') /\ ev'.answer < round /\ ev'.answer = max_round - 1 =>
                 /\ ev'.outcome = "terminal"
                 /\ ev'.slept = check_backoff
                 /\ round' = round
                 /\ pc' # "block"
          /\ ev'.outcome = "terminal" =>
                 ev'.answer < round /\ ev'.answer = max_round - 1
          /\ ev'.outcome = "query_failed" => pc' = "block"
          /\ Answered(ev') /\ ev'.answer >= round =>
                 ev'.outcome = "joined" /\ round' = ev'.answer]_vars

\* the call ended on the terminal round after the coordinator had been behind
\* on an earlier round as well
C13_Witness ==
    /\ ev.outcome = "terminal"
    /\ ev.behind >= 2
    /\ round = max_round
    /\ pc # "block"

\* C14: a call of agent_block that ends because train_timeout elapsed leaves
\* the local round unchanged, and what its caller has in hand differs from
\* what it has after a catch-up, whichever round the catch-up joined.
C14_TimeoutTellsApart ==
    [][ev'.outcome = "timeout" =>
          /\ round' = round
          /\ \A round_num \in round..max_round :
                 CallerSees(ev'.result, round')
                     # CallerSees(BlockResult("joined"), round_num)]_vars

\* C15: an iteration of agent_block whose query failed raises nothing,
\* changes neither the local round nor check_backoff, sleeps check_interval
\* and stays in the loop.
C15_QueryFailureAbsorbed ==
    [][ev'.outcome = "query_failed" =>
          /\ pc' = "block"
          /\ ev'.result = "none"
          /\ round' = round
          /\ check_backoff' = check_backoff
          /\ ev'.slept = check_interval]_vars

\* a query failed after the backoff had grown
C15_Witness ==
    /\ ev.outcome = "query_failed"
    /\ check_backoff > check_interval
    /\ pc = "block"

----------------------------------------------------------------------------
\* Vocabulary of the merge's properties

PairOf(c) == <<c.agent, c.batch_id>>

\* the positions of cands, up to the n-th, that hold an eligible payload
EligibleUpTo(cands, n) == {i \in 1..n : Eligible(cands[i].payload)}

\* the pairs with an eligible payload among the first n candidates
EligiblePairsUpTo(cands, n) == {PairOf(cands[i]) : i \in EligibleUpTo(cands, n)}

\* the first eligible candidate listed under the pair of c
FirstEligibleFor(cands, c) ==
    cands[CHOOSE i \in EligibleUpTo(cands, Len(cands)) :
              /\ SamePair(cands[i], c)
              /\ \A j \in EligibleUpTo(cands, i - 1) : ~SamePair(cands[j], c)]

TreePairs(tr) == {p \in Pairs : tr[p].kind = "tree"}

NoDuplicates(seq) ==
    \A i \in 1..Len(seq) : \A j \in 1..Len(seq) : seq[i] = seq[j] => i = j

\* the swarm lists, for a peer without a local entry, exactly one eligible
\* artifact
OneEligible(tr, swarm) ==
    Cardinality(EligibleUpTo(Candidates(tr, swarm),
                             Len(Candidates(tr, swarm)))) = 1

TheEligible(tr, swarm) ==
    Candidates(tr, swarm)[CHOOSE i \in EligibleUpTo(Candidates(tr, swarm),
                                                    Len(Candidates(tr, swarm))) : TRUE]

----------------------------------------------------------------------------
\* C16: with merging enabled, when the swarm state lists exactly one eligible
\* artifact, for a pair (P, b) of a peer P without a local tree entry, and its
\* identifier matches b, the merge makes the tree of (P, b): rooted at the
\* payload's world state, with the payload's actions and metadata on node 0
\* of the current stage, and no other tree changes.  A merge that follows
\* with the same swarm state makes no tree and leaves the tree map as the
\* first merge left it.
C16_MergeIdempotent ==
    [][merge_ev'.op = "merge" /\ num_transplant_trees >= 1 =>
          /\ (/\ OneEligible(trees, merge_ev'.swarm)
              /\ IdMatches(TheEligible(trees, merge_ev'.swarm).payload,
                           TheEligible(trees, merge_ev'.swarm).batch_id)) =>
                 LET c == TheEligible(trees, merge_ev'.swarm)
                 IN  /\ merge_ev'.created = <<PairOf(c)>>
                     /\ trees' = [trees EXCEPT ![PairOf(c)] =
                                     [kind |-> "tree",
                                      root |-> c.payload.question,
                                      stage |-> merge_ev'.stage,
                                      actions |-> c.payload.actions,
                                      metadata |-> c.payload.metadata]]
          /\ (/\ merge_ev.op = "merge"
              /\ merge_ev'.swarm = merge_ev.swarm
              /\ Len(merge_ev.created) = 1
              /\ OneEligible(NoTrees, merge_ev.swarm)) =>
                 /\ merge_ev'.created = <<>>
                 /\ trees' = trees]_vars

\* the swarm state with the one artifact was merged while the tree made from
\* it exists, and no tree was made
C16_Witness ==
    /\ merge_ev.op = "merge"
    /\ merge_ev.swarm = <<EntryOne("P")>>
    /\ merge_ev.created = <<>>
    /\ num_transplant_trees >= 1
    /\ trees[<<"P", 1>>].kind = "tree"
    /\ trees[<<"P", 1>>].root = "q1"
    /\ trees[<<"P", 1>>].actions = <<"a1", "a2">>
    /\ trees[<<"P", 1>>].metadata = "mA"
    /\ trees[<<"P", 2>>].kind = "absent"

\* C17: when a merge has accepted an artifact whose identifier, recomputed
\* from its question text, differs from the batch key it is listed under, no
\* tree is built from that artifact and the merge ends in AssertionError; the
\* merge ends in that error in no other case.
C17_MismatchRaises ==
    [][merge_ev'.op = "merge" =>
          /\ \A i \in 1..Len(merge_ev'.accepted) :
                 LET c == merge_ev'.accepted[i]
                 IN  QuestionId(c.payload.question) # c.batch_id =>
                         /\ merge_ev'.error = "AssertionError"
                         /\ trees'[PairOf(c)].kind # "tree"
                         /\ \A j \in 1..Len(merge_ev'.created) :
                                merge_ev'.created[j] # PairOf(c)
          /\ merge_ev'.error # "none" =>
                 /\ merge_ev'.error = "AssertionError"
                 /\ \E i \in 1..Len(merge_ev'.accepted) :
                        QuestionId(merge_ev'.accepted[i].payload.question)
                            # merge_ev'.accepted[i].batch_id]_vars

\* a merge ended in the error after it had made a tree from an earlier pair
C17_Witness ==
    /\ merge_ev.op = "merge"
    /\ merge_ev.error = "AssertionError"
    /\ Len(merge_ev.created) >= 1
    /\ Len(merge_ev.accepted) >= 2

\* C18: a merge with num_transplant_trees >= 1 accepts at most that many
\* pairs and makes at most that many trees, and its scan ends at the
\* candidate with which the cap is reached; with num_transplant_trees = 0
\* nothing is scanned and the trees stay as they are.
C18_CapBoundsMerge ==
    [][merge_ev'.op = "merge" =>
          LET cap == num_transplant_trees
              cands == Candidates(trees, merge_ev'.swarm)
              e == merge_ev'
          IN  /\ cap = 0 =>
                     /\ e.scanned = 0
                     /\ e.accepted = <<>>
                     /\ e.created = <<>>
                     /\ trees' = trees
              /\ cap >= 1 =>
                     /\ Len(e.accepted) <= cap
                     /\ Len(e.created) <= cap
                     /\ Cardinality(TreePairs(trees') \ TreePairs(trees)) <= cap
                     /\ Len(e.accepted) = cap =>
                            /\ e.scanned \in EligibleUpTo(cands, Len(cands))
                            /\ Cardinality(EligiblePairsUpTo(cands, e.scanned)) = cap
                            /\ Cardinality(EligiblePairsUpTo(cands, e.scanned - 1)) = cap - 1
                     /\ Len(e.accepted) < cap => e.scanned = Len(cands)]_vars

\* a merge into empty trees reached a cap of two before the end of the scan
C18_Witness ==
    /\ merge_ev.op = "merge"
    /\ num_transplant_trees = 2
    /\ Len(merge_ev.accepted) = 2
    /\ Len(merge_ev.created) = 2
    /\ Cardinality(TreePairs(trees)) = 2
    /\ merge_ev.scanned < Len(Candidates(NoTrees, merge_ev.swarm))

\* C19: when the swarm state lists more eligible artifacts than the cap, the
\* accepted pairs are the first pairs met in the order of the scan, and each
\* comes with the first eligible artifact listed under it: a later eligible
\* artifact displaces no earlier one, under the same pair either.
C19_FirstEncounteredWins ==
    [][merge_ev'.op = "merge" /\ num_transplant_trees >= 1 =>
          LET cap == num_transplant_trees
              cands == Candidates(trees, merge_ev'.swarm)
              e == merge_ev'
          IN  Cardinality(EligibleUpTo(cands, Len(cands))) > cap =>
                  \A i \in 1..Len(e.accepted) :
                      e.accepted[i] = FirstEligibleFor(cands, e.accepted[i])]_vars

\* C20: a merge leaves every tree that exists as it is, makes trees only for
\* pairs that had none, makes each of them once, and the trees it made are in
\* the tree map when it ends.
C20_ExistingTreesKept ==
    [][merge_ev'.op = "merge" =>
          /\ \A p \in TreePairs(trees) : trees'[p] = trees[p]
          /\ NoDuplicates(merge_ev'.created)
          /\ \A i \in 1..Len(merge_ev'.created) :
                 /\ merge_ev'.created[i] \notin TreePairs(trees)
                 /\ merge_ev'.created[i] \in TreePairs(trees')
          /\ TreePairs(trees') \ TreePairs(trees) =
                 {merge_ev'.created[i] : i \in 1..Len(merge_ev'.created)}]_vars

\* a merge made trees for another peer while the swarm state listed an
\* eligible artifact under a pair whose tree the local game stage had made
C20_Witness ==
    /\ merge_ev.op = "merge"
    /\ merge_ev.swarm = <<EntryOne(peer_id), EntryTwoBatches("P")>>
    /\ Len(merge_ev.created) = 2
    /\ trees[<<peer_id, 1>>].kind = "tree"
    /\ trees[<<peer_id, 1>>].actions = <<"l1", "l2">>

----------------------------------------------------------------------------
\* C21: no failure raised inside the rewards-updated hook or the
\* round-advanced hook (ledger read, transport probe, coordinator calls,
\* fallback flush) leaves the hook: the round loop never sees an exception.
C21_HooksAbsorbFailures ==
    /\ pc # "crashed"
    /\ ev.op \in {"rewards", "advanced", "poll"} => ev.result # "raised"

\* C22: a flush of either path notifies the health endpoint exactly once when
\* submit_reward and submit_winners were both accepted, and a step that made
\* no such flush (gated, failed, partially failed) does not notify.
C22_HealthOncePerFullFlush ==
    ev.health = IF FullFlush(ev.rpcs) THEN 1 ELSE 0

\* C25: a fallback flush that fails, at submit_reward or at submit_winners,
\* leaves batched_signals, the flush timer and the mark of the round as they
\* were before it ran.
C25_FallbackFailureKeepsState ==
    [][ev'.op = "advanced" /\ ev'.outcome = "failed" =>
          /\ batched_signals' = batched_signals
          /\ time_since_submit' = time_since_submit
          /\ submitted_this_round' = submitted_this_round]_vars

\* C29: whenever a hook has completed, with any mix of gated, successful and
\* failed flushes of either path, batched_signals equals the sum of the
\* values in pending_rewards.
C29_BatchedIsQueueSum ==
    batched_signals = Fixed(SumSeq(pending_rewards))

----------------------------------------------------------------------------
\* Vocabulary of the health threads' properties

\* the step just taken was a step of a health thread: a thread changed its
\* state and none was started
ThreadStep ==
    /\ Len(health_threads') = Len(health_threads)
    /\ health_threads' # health_threads

SomeThreadRunning == \E i \in 1..Len(health_threads) : health_threads[i] = "running"

\* C23: a step of a health thread, whatever its outcome and wherever the
\* coordination thread stands, writes neither the round, the queue,
\* batched_signals, the flush timer nor the zero-reward caches, and leaves
\* the result of the flush that started it as it was; and while a thread is
\* running, finished or not, the coordination thread can take its next step.
C23_WorkerIsolated ==
    /\ [](SomeThreadRunning /\ pc \in {"rewards", "train", "advanced", "block"}
             => ENABLED CoordinationStep)
    /\ [][ThreadStep =>
             /\ UNCHANGED <<round, pending_rewards, batched_signals,
                            time_since_submit, sim_zero_cache,
                            cached_zero_reward_rounds, submitted_this_round>>
             /\ UNCHANGED <<pc, ev, flush_log>>]_vars

\* the coordination thread went through the round-advanced hook and into
\* agent_block while the thread of the last flush was still running
C23_Witness ==
    /\ pc = "block"
    /\ Len(health_threads) >= 1
    /\ health_threads[Len(health_threads)] = "running"
    /\ ev.op = "advanced"

----------------------------------------------------------------------------
\* C24: over any run every queued per-round value is counted in the amount
\* of at most one accepted submit_reward call: the amount of an accepted call,
\* of either path, never exceeds the sum of the values queued so far that no
\* accepted call has covered yet.
C24_NoValueSubmittedTwice ==
    [][ev'.op \in {"rewards", "advanced"} /\ Accepted(ev'.rpcs, "submit_reward") =>
          AcceptedAmount(ev'.rpcs)
              <= unpaid + (IF ev'.queued >= 0 THEN ev'.queued ELSE 0)]_vars

\* C26: after a primary flush that failed, the submission-side copy of the
\* zero-reward cache equals the aggregator's cache as that same call left it,
\* and the flush timer is unchanged.
C26_FailedFlushKeepsCache ==
    [][ev'.op = "rewards" /\ ev'.outcome = "failed" =>
          /\ sim_zero_cache' = NextZeroCache(ev'.total, sim_zero_cache, round)
          /\ cached_zero_reward_rounds' = sim_zero_cache'
          /\ time_since_submit' = time_since_submit]_vars

\* a primary flush failed in a call whose aggregation had recorded the round
\* in the cache
C26_Witness ==
    /\ ev.op = "rewards"
    /\ ev.outcome = "failed"
    /\ ev.rpcs # <<>>
    /\ Len(sim_zero_cache) >= 1
    /\ cached_zero_reward_rounds = sim_zero_cache

----------------------------------------------------------------------------
\* C27: every (agent, batch_id, payload) a merge scan accepts was listed in
\* the swarm state under a key that is a string, of an agent without an entry
\* in the trees at the time of the scan, whose value is a mapping, under a
\* batch key that is an integer and whose value is a list, and the payload is
\* of the payload type with a list of strings as actions whose length is
\* num_generations; with num_generations unset or 0 nothing is accepted.
C27_AcceptedAreEligible ==
    [][merge_ev'.op = "merge" =>
          /\ \A i \in 1..Len(merge_ev'.accepted) :
                 LET c == merge_ev'.accepted[i]
                 IN  /\ ~AgentKnown(trees, c.agent)
                     /\ c.payload.is_payload
                     /\ c.payload.actions_kind = "strs"
                     /\ Len(c.payload.actions) = num_generations
                     /\ \E j \in 1..Len(merge_ev'.swarm) :
                            LET entry == merge_ev'.swarm[j]
                            IN  /\ entry.agent = c.agent
                                /\ entry.is_str
                                /\ entry.is_dict
                                /\ \E k \in 1..Len(entry.batches) :
                                       LET batch == entry.batches[k]
                                       IN  /\ batch.batch_id = c.batch_id
                                           /\ batch.is_int
                                           /\ batch.is_list
                                           /\ \E m \in 1..Len(batch.payloads) :
                                                  batch.payloads[m] = c.payload
          /\ num_generations = 0 => merge_ev'.accepted = <<>>]_vars

\* a scan skipped an entry whose key is not a string and accepted an artifact
\* of the peer listed after it
C27_Witness ==
    /\ merge_ev.op = "merge"
    /\ num_generations = expected_generations
    /\ Len(merge_ev.swarm) = 2
    /\ ~merge_ev.swarm[1].is_str
    /\ Len(merge_ev.accepted) = 1
    /\ merge_ev.accepted[1].agent = "P"

\* C30: a merge that ends in the batch-identifier mismatch leaves the trees
\* exactly as they were before the call: no entry, not even an empty one, for
\* the offending agent or batch, and no tree from another artifact of the
\* same call.
C30_MismatchLeavesTrees ==
    [][merge_ev'.op = "merge" /\ merge_ev'.error = "AssertionError" =>
          trees' = trees]_vars

----------------------------------------------------------------------------
\* the call of agent_block is over: it returned after a catch-up, on the
\* terminal round or on the timeout
BlockEnded ==
    /\ pc # "block"
    /\ ev.op = "poll"
    /\ ev.outcome \in {"joined", "terminal", "timeout"}

\* C28: every call of agent_block ends, whatever the coordinator answers, as
\* long as each sleep advances the monotonic clock by its duration: it
\* returns after a catch-up, on the terminal round, or on the timeout, which
\* ends it at the first look at the clock once train_timeout has elapsed.
C28_BlockTerminates ==
    /\ (pc = "block") ~> BlockEnded
    /\ [][pc = "block" /\ block_elapsed >= timeout_s =>
             ev'.outcome = "timeout" /\ pc' # "block"]_vars

\* a call ended on the timeout that its own sleeps had reached, at least two
\* of them taken because the coordinator was behind
C28_Witness ==
    /\ BlockEnded
    /\ ev.outcome = "timeout"
    /\ timeout_s = MaxTrainTimeout
    /\ ev.behind >= 2

----------------------------------------------------------------------------
\* the primary gate is open: a flush is due
FlushDue == ~GateClosed(now, time_since_submit)

\* the round loop will run _hook_after_rewards_updated again
RewardsHookToCome ==
    \/ pc = "rewards"
    \/ /\ pc \in {"train", "advanced", "block"}
       /\ iter + 1 < iter_limit
       /\ (IF pc = "train" THEN round + 1 ELSE round) < max_round

\* the coordinator accepts every call from here on, a flush is due and a
\* round with a non-empty ledger is still to be processed
RecoveredAndDue ==
    /\ iter >= 1
    /\ FlushDue
    /\ RewardsHookToCome

====
